---------------------------- MODULE Spec2Model ----------------------------
(***************************************************************************)
(* A model of hmacproxy (github.com/18F/hmacproxy): the validation of the  *)
(* command line options (options.go), the construction of the request      *)
(* handler from the validated options (handlers.go) and the handling of    *)
(* requests by the four handler variants.                                  *)
(*                                                                         *)
(* Two proxies are modelled, as in handlers_test.go: "upstream", the proxy *)
(* whose options range over the inputs, and "local", a signing proxy whose *)
(* -upstream is the upstream proxy.                                        *)
(***************************************************************************)
EXTENDS Integers, Sequences, FiniteSets, TLC

VARIABLES
    opts,       \* opts[p]: the HmacProxyOpts of proxy p
    pc,         \* pc[p]: the position of proxy p's main()
    err,        \* err[p]: what Validate returned
    msgs,       \* msgs[p]: the local msgs of Validate when it returned or panicked
    ran,        \* ran[p]: the checks of Validate that returned, in order
    handler,    \* handler[p]: the http.Handler main built, NoHandler before
    out,        \* out[p]: what main printed or logged
    client,     \* the requests the clients may send, and how many of them
    reqs        \* the requests sent so far, each with its position in a handler

vars == <<opts, pc, err, msgs, ran, handler, out, client, reqs>>

ProxyIds == {"local", "upstream"}

(***************************************************************************)
(* Bounds of the model.                                                    *)
(***************************************************************************)
MaxPort == 1
MaxRequests == 2

\* The one element of a singleton set: The({ F(x) : x \in {e} }) is F(e),
\* with e evaluated once.
The(S) == CHOOSE x \in S : TRUE

(***************************************************************************)
(* HmacProxyMode                                                           *)
(***************************************************************************)
HandlerSignAndProxy == "HandlerSignAndProxy"
HandlerAuthAndProxy == "HandlerAuthAndProxy"
HandlerAuthForFiles == "HandlerAuthForFiles"
HandlerAuthOnly == "HandlerAuthOnly"

(***************************************************************************)
(* hmacauth.DigestNameToCryptoHash: the id of a supported digest name, and *)
(* an error for any other name.  The zero crypto.Hash is NoHash.           *)
(***************************************************************************)
NoHash == "crypto.Hash(0)"

SupportedDigests == {"md5", "sha1"}

DigestNameToCryptoHash(name) ==
    IF name = "md5" THEN [id |-> "crypto.MD5", err |-> FALSE]
    ELSE IF name = "sha1" THEN [id |-> "crypto.SHA1", err |-> FALSE]
    ELSE [id |-> NoHash, err |-> TRUE]

(***************************************************************************)
(* net/url: a raw URL is the sequence of its lexical tokens                *)
(*     [scheme ":"] ["//" host] [path] ["?" query]                         *)
(* and url.Parse splits it into the fields of a url.URL, or fails.         *)
(***************************************************************************)
SchemeTokens == {"http", "https", "gopher", "HTTP"}
HostTokens == {"localhost", "localhost:8080", "foo.com", "upstream.test", "proxied.test"}
BadHostTokens == {"%zz"}
RootedPathTokens == {"/", "/bar/"}
RelativePathTokens == {"bar"}
QueryTokens == {"q=1"}

RECURSIVE RawString(_)
RawString(raw) ==
    IF raw = <<>> THEN "" ELSE Head(raw) \o RawString(Tail(raw))

NilURL == [nil |-> TRUE, Scheme |-> "", Opaque |-> "", Host |-> "",
           Path |-> "", RawQuery |-> ""]

\* getscheme: ":" first is an error; a scheme is a name followed by ":".
getscheme(raw) ==
    IF raw # <<>> /\ raw[1] = ":"
    THEN [err |-> "missing protocol scheme", scheme |-> "", rest |-> raw]
    ELSE IF Len(raw) >= 2 /\ raw[1] \in SchemeTokens /\ raw[2] = ":"
    THEN [err |-> "", scheme |-> raw[1], rest |-> SubSeq(raw, 3, Len(raw))]
    ELSE [err |-> "", scheme |-> "", rest |-> raw]

\* The part of rest before a "?" token, and the query after it.
splitQuery(rest) ==
    IF \E i \in 1..Len(rest) : rest[i] = "?"
    THEN LET i == CHOOSE j \in 1..Len(rest) : rest[j] = "?"
         IN  [rest |-> SubSeq(rest, 1, i - 1),
              query |-> RawString(SubSeq(rest, i + 1, Len(rest)))]
    ELSE [rest |-> rest, query |-> ""]

\* The authority after "//", up to the path.
splitAuthority(rest) ==
    IF rest # <<>> /\ rest[1] = "//"
    THEN IF Len(rest) >= 2 /\ rest[2] \notin RootedPathTokens
         THEN [host |-> rest[2], rest |-> SubSeq(rest, 3, Len(rest))]
         ELSE [host |-> "", rest |-> Tail(rest)]
    ELSE [host |-> "", rest |-> rest]

parseRest(raw, scheme, q, a) ==
    IF q.rest # <<>> /\ q.rest[1] \in RelativePathTokens /\ scheme # ""
    THEN [url |-> [nil |-> FALSE, Scheme |-> scheme,
                   Opaque |-> RawString(q.rest), Host |-> "", Path |-> "",
                   RawQuery |-> q.query],
          err |-> ""]
    ELSE IF a.host \in BadHostTokens
    THEN [url |-> NilURL,
          err |-> "parse " \o RawString(raw) \o ": invalid URL escape \"" \o a.host \o "\""]
    ELSE [url |-> [nil |-> FALSE, Scheme |-> scheme, Opaque |-> "",
                   Host |-> a.host, Path |-> RawString(a.rest),
                   RawQuery |-> q.query],
          err |-> ""]

\* strings.ToLower on a scheme.
ToLower(scheme) == IF scheme = "HTTP" THEN "http" ELSE scheme

ParseURL(raw) ==
    The({ IF s.err # ""
          THEN [url |-> NilURL, err |-> "parse " \o RawString(raw) \o ": " \o s.err]
          ELSE The({ parseRest(raw, ToLower(s.scheme), q, splitAuthority(q.rest)) :
                     q \in {splitQuery(s.rest)} }) :
          s \in {getscheme(raw)} })

\* A request URI that leaves an empty path empty.
RequestURIAsWritten(u) ==
    LET base == IF u.Opaque # "" THEN u.Opaque ELSE u.Path
    IN  IF u.RawQuery # "" THEN base \o "?" \o u.RawQuery ELSE base

\* URL.RequestURI: the path, "/" when it is empty, and the query.
RequestURI(u) ==
    LET base == IF u.Opaque # "" THEN u.Opaque
                ELSE IF u.Path = "" THEN "/" ELSE u.Path
    IN  IF u.RawQuery # "" THEN base \o "?" \o u.RawQuery ELSE base

\* URL.String: the parsed URL put together again.
URLString(u) ==
    LET start == IF u.Scheme # "" THEN u.Scheme \o ":" ELSE ""
        rest == IF u.Opaque # "" THEN u.Opaque
                ELSE (IF u.Host # "" THEN "//" \o u.Host ELSE "") \o u.Path
    IN  start \o rest \o (IF u.RawQuery # "" THEN "?" \o u.RawQuery ELSE "")

(***************************************************************************)
(* os.Stat on the paths of the inputs: the file system the proxy runs on.  *)
(***************************************************************************)
Stat(path) ==
    CASE path = "." ->
            [err |-> "nil", IsDir |-> TRUE, IsRegular |-> FALSE]
      [] path = "options_test.go" ->
            [err |-> "nil", IsDir |-> FALSE, IsRegular |-> TRUE]
      [] path = "private/root" ->
            [err |-> "EACCES", IsDir |-> FALSE, IsRegular |-> FALSE]
      [] path = "options_test.go/x" ->
            [err |-> "ENOTDIR", IsDir |-> FALSE, IsRegular |-> FALSE]
      [] OTHER ->
            [err |-> "ENOENT", IsDir |-> FALSE, IsRegular |-> FALSE]

IsNotExist(e) == e = "ENOENT"
IsPermission(e) == e = "EACCES"

(***************************************************************************)
(* The result of one check of Validate: the options as the check leaves    *)
(* them, the messages so far, and whether the check panicked.              *)
(***************************************************************************)
Returned(o, m) == [opts |-> o, msgs |-> m, panicked |-> FALSE]
Panicked(o, m) == [opts |-> o, msgs |-> m, panicked |-> TRUE]

\* A mode selection that looks at the file root before the upstream.
ModeOfFileRootFirst(auth, upstreamDefined, fileRootDefined) ==
    IF ~auth THEN HandlerSignAndProxy
    ELSE IF fileRootDefined THEN HandlerAuthForFiles
    ELSE IF upstreamDefined THEN HandlerAuthAndProxy
    ELSE HandlerAuthOnly

ModeOf(auth, upstreamDefined, fileRootDefined) ==
    IF ~auth THEN HandlerSignAndProxy
    ELSE IF upstreamDefined THEN HandlerAuthAndProxy
    ELSE IF fileRootDefined THEN HandlerAuthForFiles
    ELSE HandlerAuthOnly

\* A mode check that applies the -auth rule before the other two.
validateModeAuthRuleFirst(o, m) ==
    LET upstreamDefined == o.Upstream.Raw # <<>>
        fileRootDefined == o.FileRoot # ""
        m1 == IF fileRootDefined /\ ~o.Auth
              THEN Append(m, "-auth must be specified with -file-root")
              ELSE m
        m2 == IF ~(upstreamDefined \/ fileRootDefined \/ o.Auth)
              THEN Append(m1, "neither -upstream, -file-root, nor -auth specified")
              ELSE IF upstreamDefined /\ fileRootDefined
              THEN Append(m1, "both -upstream and -file-root specified")
              ELSE m1
    IN  Returned([o EXCEPT !.Mode = ModeOf(o.Auth, upstreamDefined, fileRootDefined)], m2)

\* A mode check without the rule that a file root needs -auth.
validateModeWithoutAuthRule(o, m) ==
    LET upstreamDefined == o.Upstream.Raw # <<>>
        fileRootDefined == o.FileRoot # ""
        m1 == IF ~(upstreamDefined \/ fileRootDefined \/ o.Auth)
              THEN Append(m, "neither -upstream, -file-root, nor -auth specified")
              ELSE IF upstreamDefined /\ fileRootDefined
              THEN Append(m, "both -upstream and -file-root specified")
              ELSE m
    IN  Returned([o EXCEPT !.Mode = ModeOf(o.Auth, upstreamDefined, fileRootDefined)], m1)

validateMode(o, m) ==
    LET upstreamDefined == o.Upstream.Raw # <<>>
        fileRootDefined == o.FileRoot # ""
        m1 == IF ~(upstreamDefined \/ fileRootDefined \/ o.Auth)
              THEN Append(m, "neither -upstream, -file-root, nor -auth specified")
              ELSE IF upstreamDefined /\ fileRootDefined
              THEN Append(m, "both -upstream and -file-root specified")
              ELSE m
        m2 == IF fileRootDefined /\ ~o.Auth
              THEN Append(m1, "-auth must be specified with -file-root")
              ELSE m1
    IN  Returned([o EXCEPT !.Mode = ModeOf(o.Auth, upstreamDefined, fileRootDefined)], m2)

\* A port check that lets port zero pass.
validatePortNegativeOnly(o, m) ==
    IF o.Port < 0
    THEN Returned(o, Append(m, "port must be specified and greater than zero"))
    ELSE Returned(o, m)

validatePort(o, m) ==
    IF o.Port <= 0
    THEN Returned(o, Append(m, "port must be specified and greater than zero"))
    ELSE Returned(o, m)

\* A check of the authentication parameters that stops at the first failure.
validateAuthParamsFirstFailureOnly(o, m) ==
    LET d == DigestNameToCryptoHash(o.Digest.Name)
        m1 == IF d.err THEN Append(m, "unsupported digest: " \o o.Digest.Name)
              ELSE IF o.Secret = "" THEN Append(m, "no secret specified")
              ELSE IF o.SignHeader = "" THEN Append(m, "no signature header specified")
              ELSE m
    IN  Returned([o EXCEPT !.Digest.ID = d.id], m1)

validateAuthParams(o, m) ==
    LET d == DigestNameToCryptoHash(o.Digest.Name)
        m1 == IF d.err THEN Append(m, "unsupported digest: " \o o.Digest.Name) ELSE m
        m2 == IF o.Secret = "" THEN Append(m1, "no secret specified") ELSE m1
        m3 == IF o.SignHeader = ""
              THEN Append(m2, "no signature header specified") ELSE m2
    IN  Returned([o EXCEPT !.Digest.ID = d.id], m3)

\* An upstream check that accepts any path.
validateParsedUpstreamAnyPath(o, m, p) ==
    LET m1 == IF p.err # "" THEN Append(m, "upstream URL failed to parse" \o p.err)
              ELSE m
        scheme == p.url.Scheme
        m2 == IF scheme = "" THEN Append(m1, "upstream scheme not specified")
              ELSE IF ~(scheme = "http" \/ scheme = "https")
              THEN Append(m1, "invalid upstream scheme: " \o scheme)
              ELSE m1
        m3 == IF p.url.Host = "" THEN Append(m2, "upstream host not specified")
              ELSE m2
    IN  IF p.url.nil THEN Panicked([o EXCEPT !.Upstream.URL = p.url], m1)
        ELSE Returned([o EXCEPT !.Upstream.URL = p.url], m3)

\* url.Parse returns a nil *url.URL with its error, and the next statement
\* reads opts.Upstream.URL.Scheme: a nil pointer dereference.
validateParsedUpstream(o, m, p) ==
    LET m1 == IF p.err # "" THEN Append(m, "upstream URL failed to parse" \o p.err)
              ELSE m
        scheme == p.url.Scheme
        m2 == IF scheme = "" THEN Append(m1, "upstream scheme not specified")
              ELSE IF ~(scheme = "http" \/ scheme = "https")
              THEN Append(m1, "invalid upstream scheme: " \o scheme)
              ELSE m1
        m3 == IF p.url.Host = "" THEN Append(m2, "upstream host not specified")
              ELSE m2
        path == RequestURI(p.url)
        m4 == IF path # "/"
              THEN Append(m3, "upstream path must be \"/\", not " \o path)
              ELSE m3
    IN  IF p.url.nil THEN Panicked([o EXCEPT !.Upstream.URL = p.url], m1)
        ELSE Returned([o EXCEPT !.Upstream.URL = p.url], m4)

\* An upstream check that only parses the upstream.
validateUpstreamParseOnly(o, m) ==
    IF o.Upstream.Raw = <<>> THEN Returned(o, m)
    ELSE The({ IF p.err # ""
               THEN Returned([o EXCEPT !.Upstream.URL = p.url],
                             Append(m, "upstream URL failed to parse" \o p.err))
               ELSE Returned([o EXCEPT !.Upstream.URL = p.url], m) :
               p \in {ParseURL(o.Upstream.Raw)} })

validateUpstream(o, m) ==
    IF o.Upstream.Raw = <<>> THEN Returned(o, m)
    ELSE The({ validateParsedUpstream(o, m, p) : p \in {ParseURL(o.Upstream.Raw)} })

\* os.Stat returns a nil FileInfo with any error; with an error that is
\* neither IsNotExist nor IsPermission the third branch calls a method of it.
checkExistenceAndPermission(path, optionName, dirOrFile, o, m) ==
    LET st == Stat(path)
    IN  IF dirOrFile # "dir" /\ dirOrFile # "file" THEN Panicked(o, m)
        ELSE IF IsNotExist(st.err)
        THEN Returned(o, Append(m, optionName \o " does not exist: " \o path))
        ELSE IF IsPermission(st.err)
        THEN Returned(o, Append(m, optionName \o " permission is denied: " \o path))
        ELSE IF st.err # "nil" THEN Panicked(o, m)
        ELSE IF dirOrFile = "dir" /\ ~st.IsDir
        THEN Returned(o, Append(m, optionName \o " is not a directory: " \o path))
        ELSE IF dirOrFile = "file" /\ ~st.IsRegular
        THEN Returned(o, Append(m, optionName \o " is not a regular file: " \o path))
        ELSE Returned(o, m)

\* A file-root check that drops a file root it has a message for.
validateFileRootDroppingBadRoot(o, m) ==
    IF o.FileRoot = "" THEN Returned(o, m)
    ELSE The({ IF r.panicked \/ r.msgs = m THEN r
               ELSE Returned([o EXCEPT !.FileRoot = ""], r.msgs) :
               r \in {checkExistenceAndPermission(o.FileRoot, "file-root", "dir", o, m)} })

validateFileRoot(o, m) ==
    IF o.FileRoot = "" THEN Returned(o, m)
    ELSE checkExistenceAndPermission(o.FileRoot, "file-root", "dir", o, m)

validateSsl(o, m) ==
    LET certSpecified == o.SslCert # ""
        keySpecified == o.SslKey # ""
        m1 == IF ~(certSpecified /\ keySpecified)
              THEN Append(m, "ssl-cert and ssl-key must both be specified, or neither must be")
              ELSE m
        c == IF certSpecified
             THEN checkExistenceAndPermission(o.SslCert, "ssl-cert", "file", o, m1)
             ELSE Returned(o, m1)
    IN  IF ~(certSpecified \/ keySpecified) THEN Returned(o, m)
        ELSE IF c.panicked THEN c
        ELSE IF keySpecified
        THEN checkExistenceAndPermission(o.SslKey, "ssl-key", "file", o, c.msgs)
        ELSE c

(***************************************************************************)
(* HmacProxyOpts.Validate: the six checks in order, each given the         *)
(* messages of the ones before it.  A panic of a check ends Validate.      *)
(***************************************************************************)
Start(o) == [opts |-> o, msgs |-> <<>>, panicked |-> FALSE, ran |-> <<>>]

Then(r, name, s) ==
    IF r.panicked THEN r
    ELSE The({ [opts |-> t.opts, msgs |-> t.msgs, panicked |-> t.panicked,
                ran |-> IF t.panicked THEN r.ran ELSE Append(r.ran, name)] :
               t \in {s} })

RECURSIVE Join(_, _)
Join(m, sep) ==
    IF m = <<>> THEN ""
    ELSE IF Len(m) = 1 THEN m[1]
    ELSE m[1] \o sep \o Join(Tail(m), sep)

NilError == [nil |-> TRUE, text |-> ""]
NewError(text) == [nil |-> FALSE, text |-> text]

\* A Validate without the port check.
ValidateChecksWithoutPort(o) ==
    The({ Then(r5, "validateSsl", validateSsl(r5.opts, r5.msgs)) : r5 \in
        { Then(r4, "validateFileRoot", validateFileRoot(r4.opts, r4.msgs)) : r4 \in
        { Then(r3, "validateUpstream", validateUpstream(r3.opts, r3.msgs)) : r3 \in
        { Then(r1, "validateAuthParams", validateAuthParams(r1.opts, r1.msgs)) : r1 \in
        { Then(Start(o), "validateMode", validateMode(o, <<>>)) } } } } })

ValidateChecks(o) ==
    The({ Then(r5, "validateSsl", validateSsl(r5.opts, r5.msgs)) : r5 \in
        { Then(r4, "validateFileRoot", validateFileRoot(r4.opts, r4.msgs)) : r4 \in
        { Then(r3, "validateUpstream", validateUpstream(r3.opts, r3.msgs)) : r3 \in
        { Then(r2, "validateAuthParams", validateAuthParams(r2.opts, r2.msgs)) : r2 \in
        { Then(r1, "validatePort", validatePort(r1.opts, r1.msgs)) : r1 \in
        { Then(Start(o), "validateMode", validateMode(o, <<>>)) } } } } } })

ValidateResult(o) ==
    The({ [opts |-> r.opts, msgs |-> r.msgs, panicked |-> r.panicked, ran |-> r.ran,
           err |-> IF ~r.panicked /\ Len(r.msgs) # 0
                   THEN NewError("Invalid options:\n  " \o Join(r.msgs, "\n  "))
                   ELSE NilError] :
          r \in {ValidateChecks(o)} })

(***************************************************************************)
(* net/http: header names are canonicalised by Header.Get and Header.Set   *)
(* (http.CanonicalHeaderKey); a header value is the sequence of its        *)
(* space-separated components, <<>> for a header that is absent.           *)
(***************************************************************************)
HeaderNames == {"Content-Type", "Date", "Test-Signature", "X-Test-Signature"}

CanonicalHeaderKey(name) ==
    CASE name = "content-type" -> "Content-Type"
      [] name = "date" -> "Date"
      [] name = "test-signature" -> "Test-Signature"
      [] name = "x-test-signature" -> "X-Test-Signature"
      [] OTHER -> name

NoHeaders == [h \in HeaderNames |-> <<>>]

NewRequest(uri, header) == [Method |-> "GET", URI |-> uri, Header |-> header]

StatusOK == 200
StatusAccepted == 202
StatusUnauthorized == 401

\* http.Error: the status, and the message written as a line.
httpError(message, code) == [status |-> code, body |-> message \o "\n"]

(***************************************************************************)
(* github.com/18F/hmacauth, the authenticator the handlers use.  A digest  *)
(* is the term Hmac(hash, key, text): two digests are equal exactly when   *)
(* hash, key and text are.  A signature is the digest's name and the       *)
(* digest, separated by a space.                                           *)
(***************************************************************************)
ResultNoSignature == "ResultNoSignature"
ResultInvalidFormat == "ResultInvalidFormat"
ResultUnsupportedAlgorithm == "ResultUnsupportedAlgorithm"
ResultMatch == "ResultMatch"
ResultMismatch == "ResultMismatch"

CryptoHashToDigestName(id) ==
    IF id = "crypto.MD5" THEN "md5"
    ELSE IF id = "crypto.SHA1" THEN "sha1"
    ELSE "unknown"

Hmac(hash, key, text) == "hmac(" \o hash \o "," \o key \o "," \o text \o ")"

RECURSIVE CanonicalHeaders(_)
CanonicalHeaders(headers) ==
    IF headers = <<>> THEN <<>>
    ELSE <<CanonicalHeaderKey(Head(headers))>> \o CanonicalHeaders(Tail(headers))

NewHmacAuth(hash, key, header, headers) ==
    [hash |-> hash, key |-> key, header |-> header,
     headers |-> CanonicalHeaders(headers)]

\* One line for each covered header, in order: its value, empty when absent.
RECURSIVE HeaderLines(_, _)
HeaderLines(headers, req) ==
    IF headers = <<>> THEN ""
    ELSE Join(req.Header[Head(headers)], " ") \o "\n"
         \o HeaderLines(Tail(headers), req)

StringToSign(auth, req) ==
    req.Method \o "\n" \o HeaderLines(auth.headers, req) \o req.URI

requestSignature(auth, req, hash) ==
    <<CryptoHashToDigestName(hash), Hmac(hash, auth.key, StringToSign(auth, req))>>

SignatureFromHeader(auth, req) == req.Header[CanonicalHeaderKey(auth.header)]

SignRequest(auth, req) ==
    [req EXCEPT !.Header[CanonicalHeaderKey(auth.header)] =
                    requestSignature(auth, req, auth.hash)]

\* The digest of the comparison is the one the signature names.
ValidateRequest(auth, req) ==
    LET sig == SignatureFromHeader(auth, req)
        d == DigestNameToCryptoHash(sig[1])
    IN  IF sig = <<>> THEN ResultNoSignature
        ELSE IF Len(sig) # 2 THEN ResultInvalidFormat
        ELSE IF d.err THEN ResultUnsupportedAlgorithm
        ELSE IF sig = requestSignature(auth, req, d.id) THEN ResultMatch
        ELSE ResultMismatch

(***************************************************************************)
(* handlers.go: NewHTTPProxyHandler and the handlers it builds.            *)
(***************************************************************************)
NoHandler == [kind |-> "none", auth |-> NewHmacAuth(NoHash, "", "", <<>>),
              delegate |-> "none", target |-> NilURL, root |-> ""]

\* A signing handler described by the parsed URL.
signAndProxyHandlerParsedURL(auth, upstream) ==
    [handler |-> [kind |-> "signingHandler", auth |-> auth,
                  delegate |-> "ReverseProxy", target |-> upstream.URL, root |-> ""],
     description |-> "proxying signed requests to: " \o URLString(upstream.URL)]

signAndProxyHandler(auth, upstream) ==
    [handler |-> [kind |-> "signingHandler", auth |-> auth,
                  delegate |-> "ReverseProxy", target |-> upstream.URL, root |-> ""],
     description |-> "proxying signed requests to: " \o RawString(upstream.Raw)]

authAndProxyHandler(auth, upstream) ==
    [handler |-> [kind |-> "authHandler", auth |-> auth,
                  delegate |-> "ReverseProxy", target |-> upstream.URL, root |-> ""],
     description |-> "proxying authenticated requests to: " \o RawString(upstream.Raw)]

authForFilesHandler(auth, fileRoot) ==
    [handler |-> [kind |-> "authHandler", auth |-> auth,
                  delegate |-> "FileServer", target |-> NilURL, root |-> fileRoot],
     description |-> "serving files from " \o fileRoot \o " for authenticated requests"]

authenticationOnlyHandler(auth) ==
    [handler |-> [kind |-> "authOnlyHandler", auth |-> auth,
                  delegate |-> "none", target |-> NilURL, root |-> ""],
     description |-> "responding Accepted/Unauthorized for auth queries"]

\* A constructor whose signing handler covers no headers.
NewHTTPProxyHandlerSigningWithoutHeaders(o) ==
    LET auth == NewHmacAuth(o.Digest.ID, o.Secret, o.SignHeader,
                            IF o.Mode = HandlerSignAndProxy THEN <<>> ELSE o.Headers)
    IN  CASE o.Mode = HandlerSignAndProxy -> signAndProxyHandler(auth, o.Upstream)
          [] o.Mode = HandlerAuthAndProxy -> authAndProxyHandler(auth, o.Upstream)
          [] o.Mode = HandlerAuthForFiles -> authForFilesHandler(auth, o.FileRoot)
          [] o.Mode = HandlerAuthOnly -> authenticationOnlyHandler(auth)

\* A constructor that forgets the covered headers.
NewHTTPProxyHandlerWithoutHeaders(o) ==
    LET auth == NewHmacAuth(o.Digest.ID, o.Secret, o.SignHeader, <<>>)
    IN  CASE o.Mode = HandlerSignAndProxy -> signAndProxyHandler(auth, o.Upstream)
          [] o.Mode = HandlerAuthAndProxy -> authAndProxyHandler(auth, o.Upstream)
          [] o.Mode = HandlerAuthForFiles -> authForFilesHandler(auth, o.FileRoot)
          [] o.Mode = HandlerAuthOnly -> authenticationOnlyHandler(auth)

NewHTTPProxyHandler(o) ==
    LET auth == NewHmacAuth(o.Digest.ID, o.Secret, o.SignHeader, o.Headers)
    IN  CASE o.Mode = HandlerSignAndProxy -> signAndProxyHandler(auth, o.Upstream)
          [] o.Mode = HandlerAuthAndProxy -> authAndProxyHandler(auth, o.Upstream)
          [] o.Mode = HandlerAuthForFiles -> authForFilesHandler(auth, o.FileRoot)
          [] o.Mode = HandlerAuthOnly -> authenticationOnlyHandler(auth)

(***************************************************************************)
(* RegisterCommandLineOptions and flag.Parse: the options as the command   *)
(* line gives them, the derived fields at their zero values.               *)
(***************************************************************************)
NewOpts(port, auth, digest, secret, signHeader, headers, upstream, fileRoot, sslCert, sslKey) ==
    [Port |-> port, Auth |-> auth,
     Digest |-> [Name |-> digest, ID |-> NoHash],
     Secret |-> secret, SignHeader |-> signHeader, Headers |-> headers,
     Upstream |-> [Raw |-> upstream, URL |-> NilURL],
     FileRoot |-> fileRoot, SslCert |-> sslCert, SslKey |-> sslKey,
     Mode |-> HandlerSignAndProxy]

PortInputs == (-1)..MaxPort
DigestInputs == {"sha1", "md5", "unsupported"}
SecretInputs == {"", "foobar"}
SignHeaderInputs == {"", "Test-Signature"}
UpstreamInputs ==
    { <<>>,
      <<"http", ":", "//", "localhost">>,
      <<"HTTP", ":", "//", "localhost">>,
      <<"https", ":", "//", "localhost:8080", "/">>,
      <<"/">>,
      <<"gopher", ":", "//", "foo.com", "/bar/">>,
      <<"http", ":", "//", "localhost", "/", "?", "q=1">>,
      <<"http", ":", "//", "localhost", "?", "q=1">>,
      <<"http", ":", "bar">>,
      <<":">>,
      <<"http", ":", "//", "%zz">> }
FileRootInputs == {"", ".", "bogus", "options_test.go", "private/root", "options_test.go/x"}
SslCertInputs == {"", "cert.pem", "options_test.go", ".", "options_test.go/x"}
SslKeyInputs == {"", "key.pem", "options_test.go"}

\* Every combination of the option values above.
OptsInputs ==
    { NewOpts(port, auth, digest, secret, signHeader, <<"Content-Type">>,
              upstream, fileRoot, sslCert, sslKey) :
        port \in PortInputs, auth \in BOOLEAN, digest \in DigestInputs,
        secret \in SecretInputs, signHeader \in SignHeaderInputs,
        upstream \in UpstreamInputs, fileRoot \in FileRootInputs,
        sslCert \in SslCertInputs, sslKey \in SslKeyInputs }

\* The options of a command line with no arguments (the flags' defaults).
DefaultOpts == NewOpts(0, FALSE, "sha1", "", "", <<>>, <<>>, "", "", "")

\* A command line with a secret, a signature header and an upstream only.
SignAndProxyDefaults ==
    NewOpts(0, FALSE, "sha1", "foobar", "Test-Signature", <<>>,
            <<"https", ":", "//", "localhost:8080", "/">>, "", "", "")

\* The upstream servers of handlers_test.go, one for each mode, with the
\* secret of the local proxy or another one.
ServeModes ==
    { <<FALSE, <<"http", ":", "//", "proxied.test">>, "">>,
      <<TRUE, <<"http", ":", "//", "proxied.test">>, "">>,
      <<TRUE, <<>>, ".">>,
      <<TRUE, <<>>, "">> }

ServeOptsInputs ==
    { NewOpts(1, m[1], "sha1", secret, "Test-Signature", <<"Content-Type">>,
              m[2], m[3], "", "") :
        secret \in {"foobar", "bazquux"}, m \in ServeModes }

\* The local proxy of handlers_test.go: a signing proxy in front of upstream.
LocalOpts ==
    NewOpts(1, FALSE, "sha1", "foobar", "Test-Signature", <<"content-type">>,
            <<"http", ":", "//", "upstream.test">>, "", "", "")

\* The signing and the authenticating proxy with every pair of digest,
\* secret, signature header and covered headers.
ChainDigests == {"sha1", "md5"}
ChainSecrets == {"foobar", "bazquux"}
ChainSignHeaders == {"Test-Signature", "test-signature", "X-Test-Signature"}
ChainHeaders ==
    { <<>>, <<"Content-Type">>, <<"content-type">>, <<"Date">>,
      <<"Content-Type", "Date">>, <<"Date", "Content-Type">> }

ChainLocalOpts ==
    { NewOpts(1, FALSE, d, s, h, c, <<"http", ":", "//", "upstream.test">>, "", "", "") :
        d \in ChainDigests, s \in ChainSecrets, h \in ChainSignHeaders,
        c \in ChainHeaders }

ChainUpstreamOpts ==
    { NewOpts(1, m[1], d, s, h, c, m[2], m[3], "", "") :
        d \in ChainDigests, s \in ChainSecrets, h \in ChainSignHeaders,
        c \in ChainHeaders, m \in { n \in ServeModes : n[1] } }

\* What a client sends: a request with no signature, or with a signature
\* header that is not a signature of the request.
SignatureInputs == { <<>>, <<"garbage">>, <<"foo", "AAAA">>, <<"sha1", "AAAA">> }

ClientRequests ==
    { NewRequest("/", [NoHeaders EXCEPT !["Test-Signature"] = sig]) :
        sig \in SignatureInputs }

ChainRequests ==
    { NewRequest("/", [NoHeaders EXCEPT !["Content-Type"] = ct]) :
        ct \in { <<>>, <<"text/plain">> } }

InitProcesses ==
    /\ pc = [p \in ProxyIds |-> "parsed"]
    /\ err = [p \in ProxyIds |-> NilError]
    /\ msgs = [p \in ProxyIds |-> <<>>]
    /\ ran = [p \in ProxyIds |-> <<>>]
    /\ handler = [p \in ProxyIds |-> NoHandler]
    /\ out = [p \in ProxyIds |-> ""]
    /\ reqs = <<>>

\* Every combination of options for the upstream proxy, the command lines
\* that leave the port out, and one request.
Init ==
    /\ \E o \in OptsInputs \cup {DefaultOpts, SignAndProxyDefaults} :
           opts = [local |-> LocalOpts, upstream |-> o]
    /\ client = [requests |-> ClientRequests, count |-> 1]
    /\ InitProcesses

\* The valid configurations of each mode, and concurrent requests.
InitServe ==
    /\ \E o \in ServeOptsInputs \cup {DefaultOpts} :
           opts = [local |-> LocalOpts, upstream |-> o]
    /\ client = [requests |-> ClientRequests, count |-> MaxRequests]
    /\ InitProcesses

\* Every pair of a signing and an authenticating proxy, and one request.
InitChain ==
    /\ \E l \in ChainLocalOpts, u \in ChainUpstreamOpts \cup {DefaultOpts} :
           opts = [local |-> l, upstream |-> u]
    /\ client = [requests |-> ChainRequests, count |-> 1]
    /\ InitProcesses

(***************************************************************************)
(* main: opts.Validate(), then log.Fatal(err) or NewHTTPProxyHandler and   *)
(* ListenAndServe.  The local proxy is started with the URL of the         *)
(* upstream server, which is listening by then.                            *)
(***************************************************************************)
Validate(p) ==
    /\ pc[p] = "parsed"
    /\ p = "local" => pc["upstream"] = "serving"
    /\ \E r \in {ValidateResult(opts[p])} :
           /\ opts' = [opts EXCEPT ![p] = r.opts]
           /\ err' = [err EXCEPT ![p] = r.err]
           /\ msgs' = [msgs EXCEPT ![p] = r.msgs]
           /\ ran' = [ran EXCEPT ![p] = r.ran]
           /\ pc' = [pc EXCEPT ![p] = IF r.panicked THEN "panicked" ELSE "validated"]
    /\ UNCHANGED <<handler, out, client, reqs>>

Fatal(p) ==
    /\ pc[p] = "validated"
    /\ ~err[p].nil
    /\ out' = [out EXCEPT ![p] = err[p].text]
    /\ pc' = [pc EXCEPT ![p] = "exited"]
    /\ UNCHANGED <<opts, err, msgs, ran, handler, client, reqs>>

\* A main that builds the handler and serves whatever Validate returned.
ServeWhateverValidateReturned(p) ==
    /\ pc[p] = "validated"
    /\ \E h \in {NewHTTPProxyHandler(opts[p])} :
           /\ handler' = [handler EXCEPT ![p] = h.handler]
           /\ out' = [out EXCEPT ![p] = h.description]
    /\ pc' = [pc EXCEPT ![p] = "serving"]
    /\ UNCHANGED <<opts, err, msgs, ran, client, reqs>>

Serve(p) ==
    /\ pc[p] = "validated"
    /\ err[p].nil
    /\ \E h \in {NewHTTPProxyHandler(opts[p])} :
           /\ handler' = [handler EXCEPT ![p] = h.handler]
           /\ out' = [out EXCEPT ![p] = h.description]
    /\ pc' = [pc EXCEPT ![p] = "serving"]
    /\ UNCHANGED <<opts, err, msgs, ran, client, reqs>>

(***************************************************************************)
(* A client sends a request to a proxy that is serving.                    *)
(***************************************************************************)
NewExchange(p, r) ==
    [at |-> p, pc |-> "received", r |-> r, arrived |-> r, result |-> "",
     status |-> 0, body |-> "", trace |-> <<>>]

ClientSend(p, r) ==
    /\ pc[p] = "serving"
    /\ Len(reqs) < client.count
    /\ reqs' = Append(reqs, NewExchange(p, r))
    /\ UNCHANGED <<opts, pc, err, msgs, ran, handler, out, client>>

\* Where the reverse proxy's target leads: the upstream proxy, or the
\* proxied server of handlers_test.go, which answers "Success!".
Route(target) == IF target.Host = "upstream.test" THEN "upstream" ELSE "proxied"

Event(e, what) == Append(e.trace, <<e.at, what>>)

\* A test that rejects a wrong signature only.
RejectsMismatchOnly(result) == result = ResultMismatch

\* authHandler.ServeHTTP, authOnlyHandler.ServeHTTP: result != hmacauth.ResultMatch
Rejects(result) == result # ResultMatch

\* A signing handler that may forward before it has signed.
MayDelegateUnsigned(h, e) ==
    IF h.kind = "signingHandler" THEN e.pc \in {"received", "signed"}
    ELSE h.kind = "authHandler" /\ e.pc = "validated" /\ ~Rejects(e.result)

\* When a handler calls h.handler.ServeHTTP(w, r): the signing handler after
\* SignRequest, the authenticating handler when it does not reject.
MayDelegate(h, e) ==
    IF h.kind = "signingHandler" THEN e.pc = "signed"
    ELSE h.kind = "authHandler" /\ e.pc = "validated" /\ ~Rejects(e.result)

\* A signing handler that leaves the request as it came.
SignSkipped(i) ==
    LET e == reqs[i]
        h == handler[e.at]
    IN  /\ e.pc = "received"
        /\ h.kind = "signingHandler"
        /\ reqs' = [reqs EXCEPT ![i] =
               [e EXCEPT !.pc = "signed", !.trace = Event(e, "SignRequest")]]
        /\ UNCHANGED <<opts, pc, err, msgs, ran, handler, out, client>>

\* signingHandler.ServeHTTP: h.auth.SignRequest(r)
Sign(i) ==
    LET e == reqs[i]
        h == handler[e.at]
    IN  /\ e.pc = "received"
        /\ h.kind = "signingHandler"
        /\ reqs' = [reqs EXCEPT ![i] =
               [e EXCEPT !.r = SignRequest(h.auth, e.r), !.pc = "signed",
                         !.trace = Event(e, "SignRequest")]]
        /\ UNCHANGED <<opts, pc, err, msgs, ran, handler, out, client>>

\* A handler that keeps the request to validate in a field the requests share.
AuthenticateSharedRequest(i) ==
    LET e == reqs[i]
        h == handler[e.at]
    IN  /\ e.pc = "received"
        /\ h.kind \in {"authHandler", "authOnlyHandler"}
        /\ reqs' = [reqs EXCEPT ![i] =
               [e EXCEPT !.result = ValidateRequest(h.auth, reqs[1].r),
                         !.pc = "validated",
                         !.trace = Event(e, "ValidateRequest")]]
        /\ UNCHANGED <<opts, pc, err, msgs, ran, handler, out, client>>

\* authHandler.ServeHTTP, authOnlyHandler.ServeHTTP: h.auth.ValidateRequest(r)
Authenticate(i) ==
    LET e == reqs[i]
        h == handler[e.at]
    IN  /\ e.pc = "received"
        /\ h.kind \in {"authHandler", "authOnlyHandler"}
        /\ reqs' = [reqs EXCEPT ![i] =
               [e EXCEPT !.result = ValidateRequest(h.auth, e.r), !.pc = "validated",
                         !.trace = Event(e, "ValidateRequest")]]
        /\ UNCHANGED <<opts, pc, err, msgs, ran, handler, out, client>>

\* A rejection that tells the client why.
UnauthorizedWithCause(i) ==
    LET e == reqs[i]
        h == handler[e.at]
        w == httpError("unauthorized request: " \o e.result, StatusUnauthorized)
    IN  /\ e.pc = "validated"
        /\ Rejects(e.result)
        /\ reqs' = [reqs EXCEPT ![i] =
               [e EXCEPT !.status = w.status, !.body = w.body, !.pc = "done",
                         !.trace = Event(e, "http.Error")]]
        /\ UNCHANGED <<opts, pc, err, msgs, ran, handler, out, client>>

\* http.Error(w, "unauthorized request", http.StatusUnauthorized)
Unauthorized(i) ==
    LET e == reqs[i]
        h == handler[e.at]
        w == httpError("unauthorized request", StatusUnauthorized)
    IN  /\ e.pc = "validated"
        /\ Rejects(e.result)
        /\ reqs' = [reqs EXCEPT ![i] =
               [e EXCEPT !.status = w.status, !.body = w.body, !.pc = "done",
                         !.trace = Event(e, "http.Error")]]
        /\ UNCHANGED <<opts, pc, err, msgs, ran, handler, out, client>>

\* An authentication-only handler that answers 202 whatever the result.
AcceptedWhateverResult(i) ==
    LET e == reqs[i]
        h == handler[e.at]
    IN  /\ e.pc = "validated"
        /\ h.kind = "authOnlyHandler"
        /\ reqs' = [reqs EXCEPT ![i] =
               [e EXCEPT !.status = StatusAccepted, !.body = "", !.pc = "done",
                         !.trace = Event(e, "WriteHeader")]]
        /\ UNCHANGED <<opts, pc, err, msgs, ran, handler, out, client>>

\* authOnlyHandler.ServeHTTP: w.WriteHeader(http.StatusAccepted)
Accepted(i) ==
    LET e == reqs[i]
        h == handler[e.at]
    IN  /\ e.pc = "validated"
        /\ h.kind = "authOnlyHandler"
        /\ ~Rejects(e.result)
        /\ reqs' = [reqs EXCEPT ![i] =
               [e EXCEPT !.status = StatusAccepted, !.body = "", !.pc = "done",
                         !.trace = Event(e, "WriteHeader")]]
        /\ UNCHANGED <<opts, pc, err, msgs, ran, handler, out, client>>

\* h.handler.ServeHTTP(w, r): the reverse proxy hands the request, with its
\* headers, to its target and relays the answer; the file server answers
\* with the file.
Delegate(i) ==
    LET e == reqs[i]
        h == handler[e.at]
    IN  /\ MayDelegate(h, e)
        /\ reqs' = [reqs EXCEPT ![i] =
               IF h.delegate = "FileServer"
               THEN [e EXCEPT !.status = StatusOK, !.body = "file", !.pc = "done",
                              !.trace = Event(e, "FileServer.ServeHTTP")]
               ELSE IF Route(h.target) = "upstream"
               THEN [e EXCEPT !.at = "upstream", !.pc = "received", !.arrived = e.r,
                              !.trace = Event(e, "ReverseProxy.ServeHTTP")]
               ELSE [e EXCEPT !.status = StatusOK, !.body = "Success!", !.pc = "done",
                              !.trace = Event(e, "ReverseProxy.ServeHTTP")]]
        /\ UNCHANGED <<opts, pc, err, msgs, ran, handler, out, client>>

Next ==
    \/ \E p \in ProxyIds : Validate(p)
    \/ \E p \in ProxyIds : Fatal(p)
    \/ \E p \in ProxyIds : Serve(p)
    \/ \E p \in ProxyIds : \E r \in client.requests : ClientSend(p, r)
    \/ \E i \in 1..Len(reqs) : Sign(i)
    \/ \E i \in 1..Len(reqs) : Authenticate(i)
    \/ \E i \in 1..Len(reqs) : Unauthorized(i)
    \/ \E i \in 1..Len(reqs) : Accepted(i)
    \/ \E i \in 1..Len(reqs) : Delegate(i)

Spec == Init /\ [][Next]_vars

SpecServe == InitServe /\ [][Next]_vars

SpecChain == InitChain /\ [][Next]_vars

(***************************************************************************)
(* Properties of Validate (options.go), checked under Spec.                *)
(***************************************************************************)
AfterValidate(p) == pc[p] # "parsed"

UpstreamSet(o) == o.Upstream.Raw # <<>>
FileRootSet(o) == o.FileRoot # ""

AllChecks == <<"validateMode", "validatePort", "validateAuthParams",
               "validateUpstream", "validateFileRoot", "validateSsl">>

\* C1: once Validate has run, Mode is SignAndForward when auth is false;
\* with auth true it is AuthAndForward when an upstream is set (file root
\* set or not), AuthForFiles when only a file root is set, AuthOnly when
\* neither is; and a change of any other option leaves Mode as it is.
C1_ModeFollowsAuthUpstreamFileRoot ==
    \A p \in ProxyIds :
        AfterValidate(p) =>
            LET o == opts[p] IN
            /\ ~o.Auth => o.Mode = HandlerSignAndProxy
            /\ o.Auth /\ UpstreamSet(o) => o.Mode = HandlerAuthAndProxy
            /\ o.Auth /\ ~UpstreamSet(o) /\ FileRootSet(o) => o.Mode = HandlerAuthForFiles
            /\ o.Auth /\ ~UpstreamSet(o) /\ ~FileRootSet(o) => o.Mode = HandlerAuthOnly
            /\ \A port \in PortInputs, digest \in DigestInputs, secret \in SecretInputs :
                   validateMode([o EXCEPT !.Port = port, !.Digest.Name = digest,
                                          !.Secret = secret], <<>>).opts.Mode = o.Mode
            /\ \A signHeader \in SignHeaderInputs, cert \in SslCertInputs,
                  key \in SslKeyInputs :
                   validateMode([o EXCEPT !.SignHeader = signHeader, !.SslCert = cert,
                                          !.SslKey = key], <<>>).opts.Mode = o.Mode

\* Validate has reported errors for a configuration with auth, an upstream
\* and a file root, and Mode is AuthAndForward.
C1_Witness ==
    /\ pc["upstream"] = "validated"
    /\ ~err["upstream"].nil
    /\ opts["upstream"].Auth
    /\ UpstreamSet(opts["upstream"])
    /\ FileRootSet(opts["upstream"])
    /\ opts["upstream"].Mode = HandlerAuthAndProxy

ModeMessages(o) == validateMode(o, <<>>).msgs

\* C2 as stated: the mode check emits no message exactly when only an
\* upstream is set, only a file root is set, or neither is set and auth is
\* true.
C2_NoMessageIffLegalCombination ==
    \A p \in ProxyIds :
        AfterValidate(p) =>
            LET o == opts[p] IN
            (ModeMessages(o) = <<>>) <=>
                \/ UpstreamSet(o) /\ ~FileRootSet(o)
                \/ FileRootSet(o) /\ ~UpstreamSet(o)
                \/ ~UpstreamSet(o) /\ ~FileRootSet(o) /\ o.Auth

\* C2: the mode check emits no message exactly when only an upstream is
\* set, only a file root is set and auth is true, or neither is set and
\* auth is true; it emits at least one message when both are set and when
\* neither is set and auth is false.  What it emits starts Validate's report.
C2_NoMessageIffLegalCombinationWithAuth ==
    \A p \in ProxyIds :
        AfterValidate(p) =>
            LET o == opts[p] IN
            /\ (ModeMessages(o) = <<>>) <=>
                   \/ UpstreamSet(o) /\ ~FileRootSet(o)
                   \/ FileRootSet(o) /\ ~UpstreamSet(o) /\ o.Auth
                   \/ ~UpstreamSet(o) /\ ~FileRootSet(o) /\ o.Auth
            /\ UpstreamSet(o) /\ FileRootSet(o) => Len(ModeMessages(o)) >= 1
            /\ ~UpstreamSet(o) /\ ~FileRootSet(o) /\ ~o.Auth => Len(ModeMessages(o)) >= 1
            /\ Len(msgs[p]) >= Len(ModeMessages(o))
            /\ SubSeq(msgs[p], 1, Len(ModeMessages(o))) = ModeMessages(o)

\* Validate has run for a file root alone without auth, and the mode check's
\* message is the whole report.
C2_Witness ==
    /\ pc["upstream"] = "validated"
    /\ FileRootSet(opts["upstream"])
    /\ ~UpstreamSet(opts["upstream"])
    /\ ~opts["upstream"].Auth
    /\ msgs["upstream"] = <<"-auth must be specified with -file-root">>

\* The messages of each check on its own, in the order of Validate.
OwnMessages(o) ==
    validateMode(o, <<>>).msgs \o validatePort(o, <<>>).msgs
    \o validateAuthParams(o, <<>>).msgs \o validateUpstream(o, <<>>).msgs
    \o validateFileRoot(o, <<>>).msgs \o validateSsl(o, <<>>).msgs

\* C3: Validate always runs all six checks, its report is the messages of
\* the checks in the fixed order, and it returns an error exactly when the
\* report is not empty.
C3_AllSixChecksRun ==
    \A p \in ProxyIds :
        AfterValidate(p) =>
            /\ pc[p] # "panicked"
            /\ ran[p] = AllChecks
            /\ msgs[p] = OwnMessages(opts[p])
            /\ err[p].nil <=> msgs[p] = <<>>

\* C4: with a non-empty upstream that does not parse, the parse failure is
\* recorded and Validate still completes.
C4_UnparsableUpstreamIsReported ==
    \A p \in ProxyIds :
        AfterValidate(p) /\ UpstreamSet(opts[p])
                         /\ ParseURL(opts[p].Upstream.Raw).err # "" =>
            /\ pc[p] # "panicked"
            /\ ran[p] = AllChecks
            /\ \E k \in 1..Len(msgs[p]) :
                   msgs[p][k] = "upstream URL failed to parse"
                                \o ParseURL(opts[p].Upstream.Raw).err
            /\ ~err[p].nil

(***************************************************************************)
(* Properties of the handlers (handlers.go), checked under SpecServe.      *)
(***************************************************************************)
Has(e, p, what) == \E k \in 1..Len(e.trace) : e.trace[k] = <<p, what>>

Delegated(e, p) ==
    Has(e, p, "ReverseProxy.ServeHTTP") \/ Has(e, p, "FileServer.ServeHTTP")

\* How many responses proxy p has written itself for exchange e.
OwnResponses(e, p) ==
    Cardinality({ k \in 1..Len(e.trace) :
                    e.trace[k] \in {<<p, "http.Error">>, <<p, "WriteHeader">>} })

UnauthorizedBody == "unauthorized request\n"

NonMatchResults ==
    {ResultNoSignature, ResultInvalidFormat, ResultUnsupportedAlgorithm, ResultMismatch}

\* C5: in the modes AuthAndForward and AuthForFiles the delegate is invoked
\* exactly when the validation result is a match; any other result is
\* answered 401 "unauthorized request" and the delegate is never invoked.
C5_DelegateIffMatch ==
    \A p \in ProxyIds : \A i \in 1..Len(reqs) :
        LET e == reqs[i] IN
        handler[p].kind = "authHandler" /\ Has(e, p, "ValidateRequest") =>
            /\ e.result \in NonMatchResults \cup {ResultMatch}
            /\ Delegated(e, p) => e.result = ResultMatch
            /\ e.pc = "done" => (Delegated(e, p) <=> e.result = ResultMatch)
            /\ e.pc = "done" /\ e.result # ResultMatch =>
                   /\ e.status = StatusUnauthorized
                   /\ e.body = UnauthorizedBody
                   /\ OwnResponses(e, p) = 1
            /\ e.pc = "validated" =>
                   /\ ENABLED Delegate(i) <=> e.result = ResultMatch
                   /\ ENABLED Unauthorized(i) <=> e.result # ResultMatch
            /\ OwnResponses(e, p) = 0 \/ ~Delegated(e, p)

\* An authenticating proxy with a delegate has answered two requests: one
\* matched and went to the delegate, the other did not and was answered 401.
C5_Witness ==
    /\ handler["upstream"].kind = "authHandler"
    /\ \E i, j \in 1..Len(reqs) :
           /\ reqs[i].pc = "done" /\ reqs[i].result = ResultMatch
           /\ Delegated(reqs[i], "upstream")
           /\ reqs[j].pc = "done" /\ reqs[j].result # ResultMatch
           /\ Has(reqs[j], "upstream", "http.Error")
           /\ reqs[j].status = StatusUnauthorized

\* C6: in the mode AuthOnly every request gets exactly one response, 202
\* with an empty body when the result is a match and 401 "unauthorized
\* request" otherwise; it is never forwarded and no file is served.
C6_AuthOnlyAnswersItself ==
    \A p \in ProxyIds : \A i \in 1..Len(reqs) :
        LET e == reqs[i] IN
        handler[p].kind = "authOnlyHandler" /\ e.at = p =>
            /\ ~Delegated(e, p)
            /\ OwnResponses(e, p) <= 1
            /\ e.pc = "received" => ENABLED Authenticate(i)
            /\ e.pc = "validated" => ENABLED Unauthorized(i) \/ ENABLED Accepted(i)
            /\ e.pc = "validated" => ~(ENABLED Unauthorized(i) /\ ENABLED Accepted(i))
            /\ e.pc \in {"received", "validated"} => OwnResponses(e, p) = 0
            /\ e.pc = "done" =>
                   /\ OwnResponses(e, p) = 1
                   /\ e.result = ResultMatch =>
                          e.status = StatusAccepted /\ e.body = ""
                   /\ e.result # ResultMatch =>
                          e.status = StatusUnauthorized /\ e.body = UnauthorizedBody

\* An authentication-only proxy has answered 202 to a request with a valid
\* signature and 401 to a request with no signature header.
C6_Witness ==
    /\ handler["upstream"].kind = "authOnlyHandler"
    /\ \E i, j \in 1..Len(reqs) :
           /\ reqs[i].pc = "done" /\ reqs[i].result = ResultMatch
           /\ reqs[i].status = StatusAccepted
           /\ reqs[j].pc = "done" /\ reqs[j].result = ResultNoSignature
           /\ reqs[j].status = StatusUnauthorized

\* C7: in the mode SignAndForward every request is first signed and then
\* forwarded, whatever it is; none is rejected, and a signature header the
\* request came with is replaced by the freshly computed signature.
C7_SignThenForward ==
    \A p \in ProxyIds : \A i \in 1..Len(reqs) :
        LET e == reqs[i]
            h == handler[p]
        IN  h.kind = "signingHandler" =>
            /\ ~Has(e, p, "http.Error") /\ ~Has(e, p, "WriteHeader")
            /\ ~Has(e, p, "ValidateRequest")
            /\ \A k \in 1..Len(e.trace) :
                   e.trace[k] = <<p, "ReverseProxy.ServeHTTP">> =>
                       k > 1 /\ e.trace[k - 1] = <<p, "SignRequest">>
            /\ e.at = p =>
                   /\ e.pc \in {"received", "signed", "done"}
                   /\ e.pc = "received" => ENABLED Sign(i)
                   /\ e.pc = "signed" => ENABLED Delegate(i)
                   /\ e.pc = "done" => Has(e, p, "ReverseProxy.ServeHTTP")
                                        /\ e.status # StatusUnauthorized
                   /\ e.pc \in {"signed", "done"} =>
                          e.r = [e.arrived EXCEPT
                                   !.Header[CanonicalHeaderKey(h.auth.header)] =
                                       requestSignature(h.auth, e.arrived, h.auth.hash)]

\* A signing proxy has signed and forwarded a request that came with a
\* signature header of its own, and the header now holds another signature.
C7_Witness ==
    /\ handler["upstream"].kind = "signingHandler"
    /\ \E i \in 1..Len(reqs) :
           /\ reqs[i].at = "upstream" /\ reqs[i].pc = "done"
           /\ reqs[i].arrived.Header["Test-Signature"] = <<"sha1", "AAAA">>
           /\ reqs[i].r.Header["Test-Signature"] # <<"sha1", "AAAA">>
           /\ reqs[i].trace = <<<<"upstream", "SignRequest">>,
                               <<"upstream", "ReverseProxy.ServeHTTP">>>>

\* C8: two requests whose results are not a match, whatever the two results
\* are, get the same status and the same body in every authenticating mode.
C8_NonMatchesAnsweredAlike ==
    \A i, j \in 1..Len(reqs) :
        LET e == reqs[i]
            f == reqs[j]
        IN  /\ e.pc = "done" /\ e.result \in NonMatchResults
            /\ f.pc = "done" /\ f.result \in NonMatchResults
            => /\ e.status = f.status
               /\ e.body = f.body
               /\ e.status = StatusUnauthorized
               /\ e.body = UnauthorizedBody

\* Two requests have been rejected, one for a missing signature and one for
\* a wrong one.
C8_Witness ==
    /\ handler["upstream"].kind \in {"authHandler", "authOnlyHandler"}
    /\ \E i, j \in 1..Len(reqs) :
           /\ reqs[i].pc = "done" /\ reqs[i].result = ResultNoSignature
           /\ reqs[j].pc = "done" /\ reqs[j].result = ResultMismatch
           /\ reqs[i].status = reqs[j].status
           /\ reqs[i].body = reqs[j].body

(***************************************************************************)
(* Properties of a signing proxy in front of an authenticating one         *)
(* (handlers_test.go), checked under SpecChain.  D, S, H and C are the     *)
(* digest, the secret, the signature header and the covered headers.       *)
(***************************************************************************)
\* The exchange was signed by the local proxy, authenticated by the
\* upstream proxy, and has its response.
ThroughBoth(e) ==
    /\ e.pc = "done"
    /\ Has(e, "local", "SignRequest")
    /\ Has(e, "local", "ReverseProxy.ServeHTTP")
    /\ Has(e, "upstream", "ValidateRequest")

Differing ==
    LET l == opts["local"]
        u == opts["upstream"]
    IN  { x \in {"D", "S", "H", "C"} :
            \/ x = "D" /\ l.Digest.Name # u.Digest.Name
            \/ x = "S" /\ l.Secret # u.Secret
            \/ x = "H" /\ l.SignHeader # u.SignHeader
            \/ x = "C" /\ l.Headers # u.Headers }

IsAccepted(e) == e.status \in {StatusOK, StatusAccepted}
IsRejected(e) == e.status = StatusUnauthorized /\ e.body = UnauthorizedBody

\* The values a list of covered headers selects from a request.
CoveredValues(headers, req) ==
    [k \in 1..Len(headers) |-> req.Header[CanonicalHeaderKey(headers[k])]]

\* C9 as stated: a request signed with (D, S, H, C) is accepted by an
\* authenticating proxy configured alike, and rejected with 401 when exactly
\* one of D, S, H, C differs between the two.
C9_AnySingleChangeRejects ==
    \A i \in 1..Len(reqs) :
        ThroughBoth(reqs[i]) =>
            /\ Differing = {} => IsAccepted(reqs[i])
            /\ Cardinality(Differing) = 1 => IsRejected(reqs[i])

\* C9: a request signed with (D, S, H, C) is accepted by an authenticating
\* proxy configured alike.  With only S changed on one side it is rejected
\* with 401; with only H changed it is rejected exactly when the two names
\* differ in more than letter case; with only C changed it is rejected
\* exactly when the two lists select different values from the request;
\* with only D changed it is still accepted.
C9_ChangeOfSecretHeaderOrCoveredValuesRejects ==
    \A i \in 1..Len(reqs) :
        LET e == reqs[i]
            l == opts["local"]
            u == opts["upstream"]
        IN  ThroughBoth(e) =>
            /\ IsAccepted(e) \/ IsRejected(e)
            /\ Differing = {} => IsAccepted(e)
            /\ Differing = {"S"} => IsRejected(e)
            /\ Differing = {"H"} =>
                   (IsRejected(e) <=> CanonicalHeaderKey(l.SignHeader)
                                      # CanonicalHeaderKey(u.SignHeader))
            /\ Differing = {"C"} =>
                   (IsRejected(e) <=> CoveredValues(l.Headers, e.arrived)
                                      # CoveredValues(u.Headers, e.arrived))
            /\ Differing = {"D"} => IsAccepted(e)

\* The two proxies differ in the secret only, and the signed request has
\* been rejected.
C9_Witness ==
    /\ Differing = {"S"}
    /\ \E i \in 1..Len(reqs) :
           /\ ThroughBoth(reqs[i])
           /\ reqs[i].result = ResultMismatch
           /\ IsRejected(reqs[i])

\* C10: an authenticating proxy accepts a request signed with any supported
\* digest, not only the one it is configured with, when secret, signature
\* header and covered headers agree.
C10_AnySupportedDigestAccepted ==
    \A i \in 1..Len(reqs) :
        ThroughBoth(reqs[i]) /\ Differing \subseteq {"D"} =>
            /\ opts["local"].Digest.Name \in SupportedDigests
            /\ reqs[i].result = ResultMatch
            /\ IsAccepted(reqs[i])

\* A proxy configured with sha1 has served a file for a request that was
\* signed with md5.
C10_Witness ==
    /\ opts["local"].Digest.Name = "md5"
    /\ opts["upstream"].Digest.Name = "sha1"
    /\ opts["upstream"].Mode = HandlerAuthForFiles
    /\ \E i \in 1..Len(reqs) :
           /\ ThroughBoth(reqs[i])
           /\ reqs[i].r.Header["Test-Signature"][1] = "md5"
           /\ reqs[i].status = StatusOK

\* Two lists of header names are equal up to letter case, in the same order.
EqualUpToCase(a, b) ==
    /\ Len(a) = Len(b)
    /\ \A k \in 1..Len(a) : CanonicalHeaderKey(a[k]) = CanonicalHeaderKey(b[k])

\* C11: covered header names are compared case-insensitively: when the
\* covered-header lists of signer and verifier are equal up to letter case
\* and in the same order, and secret and signature header are the same, the
\* signed request is accepted.
C11_CoveredHeadersCaseInsensitive ==
    \A i \in 1..Len(reqs) :
        /\ ThroughBoth(reqs[i])
        /\ opts["local"].Secret = opts["upstream"].Secret
        /\ opts["local"].SignHeader = opts["upstream"].SignHeader
        /\ EqualUpToCase(opts["local"].Headers, opts["upstream"].Headers)
        => /\ reqs[i].result = ResultMatch
           /\ IsAccepted(reqs[i])

\* A verifier covering Content-Type has accepted a request that carries the
\* header and was signed by a signer covering content-type.
C11_Witness ==
    /\ opts["local"].Headers = <<"content-type">>
    /\ opts["upstream"].Headers = <<"Content-Type">>
    /\ \E i \in 1..Len(reqs) :
           /\ ThroughBoth(reqs[i])
           /\ reqs[i].r.Header["Content-Type"] = <<"text/plain">>
           /\ IsAccepted(reqs[i])

(***************************************************************************)
(* Properties of main (unnamed/part_003), checked under Spec.              *)
(***************************************************************************)
\* The proxies an exchange has been at.
Visited(e) == {e.at} \cup { e.trace[k][1] : k \in 1..Len(e.trace) }

ValidatedWithoutError(p) ==
    /\ err[p].nil
    /\ msgs[p] = <<>>
    /\ ran[p] = AllChecks

StartupInvariant ==
    \A p \in ProxyIds :
        /\ pc[p] = "serving" => ValidatedWithoutError(p) /\ handler[p] # NoHandler
        /\ handler[p] # NoHandler => pc[p] = "serving"
        /\ (\E i \in 1..Len(reqs) : p \in Visited(reqs[i])) => pc[p] = "serving"
        /\ pc[p] = "validated" /\ ~err[p].nil => ENABLED Fatal(p) /\ ~ENABLED Serve(p)
        /\ pc[p] = "exited" =>
               /\ handler[p] = NoHandler
               /\ msgs[p] # <<>>
               /\ out[p] = "Invalid options:\n  " \o Join(OwnMessages(opts[p]), "\n  ")

StartupStep ==
    \A p \in ProxyIds :
        /\ handler'[p] # handler[p] =>
               pc[p] = "validated" /\ err[p].nil /\ pc'[p] = "serving"
        /\ pc'[p] = "serving" => pc[p] = "serving" \/ (pc[p] = "validated" /\ err[p].nil)
        /\ pc[p] = "validated" /\ ~err[p].nil /\ pc'[p] # pc[p] =>
               pc'[p] = "exited" /\ out'[p] = err[p].text
        /\ pc[p] = "exited" => pc'[p] = "exited" /\ handler'[p] = handler[p]

\* C12: the process never serves with an invalid configuration: the handler
\* is built and requests are accepted only after Validate has returned no
\* error; when Validate returns an error the process ends with the full
\* report, without a handler and without having accepted a request.
C12_NeverServesInvalidConfiguration == []StartupInvariant /\ [][StartupStep]_vars

\* A process has ended with a report of at least four messages, without a
\* handler.
C12_Witness ==
    /\ pc["upstream"] = "exited"
    /\ Len(msgs["upstream"]) >= 4
    /\ handler["upstream"] = NoHandler
    /\ out["upstream"] = err["upstream"].text

(***************************************************************************)
(* Properties of the single checks of Validate, checked under Spec.  The   *)
(* messages of a process are those Validate has collected, in order.       *)
(***************************************************************************)
Count(seq, x) == Cardinality({ k \in 1..Len(seq) : seq[k] = x })

PortMessage == "port must be specified and greater than zero"

\* C13: the digest, secret and signature-header checks are independent of
\* each other, of the port check and of the mode: each of "unsupported
\* digest: <name>", "no secret specified" and "no signature header
\* specified" is collected exactly when its own condition fails, so empty
\* secret, empty signature header, port -1 and an unsupported digest give
\* all four messages in one pass.
C13_AuthParamChecksIndependent ==
    \A p \in ProxyIds :
        AfterValidate(p) =>
            LET o == opts[p] IN
            /\ Count(msgs[p], "unsupported digest: " \o o.Digest.Name)
                   = IF o.Digest.Name \in SupportedDigests THEN 0 ELSE 1
            /\ Count(msgs[p], "no secret specified")
                   = IF o.Secret = "" THEN 1 ELSE 0
            /\ Count(msgs[p], "no signature header specified")
                   = IF o.SignHeader = "" THEN 1 ELSE 0
            /\ o.Secret = "" /\ o.SignHeader = "" /\ o.Port = -1
               /\ o.Digest.Name = "unsupported" =>
                   \E k \in 1..(Len(msgs[p]) - 3) :
                       SubSeq(msgs[p], k, k + 3) =
                           <<PortMessage, "unsupported digest: unsupported",
                             "no secret specified", "no signature header specified">>

\* Validate has returned for port -1, an unsupported digest, no secret and
\* no signature header, and its report is the four messages.
C13_Witness ==
    /\ pc["upstream"] = "validated"
    /\ opts["upstream"].Port = -1
    /\ opts["upstream"].Digest.Name = "unsupported"
    /\ opts["upstream"].Secret = ""
    /\ opts["upstream"].SignHeader = ""
    /\ msgs["upstream"] = <<PortMessage, "unsupported digest: unsupported",
                           "no secret specified", "no signature header specified">>
    /\ ~err["upstream"].nil

OnlySecretSignHeaderUpstream(o) ==
    /\ o.Port = 0 /\ ~o.Auth /\ o.Digest.Name = "sha1"
    /\ o.Secret # "" /\ o.SignHeader # "" /\ o.Headers = <<>>
    /\ UpstreamSet(o) /\ validateUpstream(o, <<>>).msgs = <<>>
    /\ o.FileRoot = "" /\ o.SslCert = "" /\ o.SslKey = ""

\* No option is given.
NoOptions(o) ==
    /\ o.Port = 0 /\ ~o.Auth /\ o.Digest.Name = "sha1"
    /\ o.Secret = "" /\ o.SignHeader = "" /\ o.Headers = <<>>
    /\ ~UpstreamSet(o) /\ o.FileRoot = "" /\ o.SslCert = "" /\ o.SslKey = ""

SchemeRule(u) ==
    IF u.Scheme = "" THEN <<"upstream scheme not specified">>
    ELSE IF u.Scheme \notin {"http", "https"}
    THEN <<"invalid upstream scheme: " \o u.Scheme>>
    ELSE <<>>

HostRule(u) == IF u.Host = "" THEN <<"upstream host not specified">> ELSE <<>>

PathRule(u) ==
    IF RequestURI(u) = "/" THEN <<>>
    ELSE <<"upstream path must be \"/\", not " \o RequestURI(u)>>

\* How many messages the checks before validateUpstream have collected.
BeforeUpstream(o) ==
    Len(validateMode(o, <<>>).msgs) + Len(validatePort(o, <<>>).msgs)
    + Len(validateAuthParams(o, <<>>).msgs)

\* C16: for an upstream that parses, the upstream check emits one message
\* for each violated rule and nothing else, in the order scheme, host,
\* path; so gopher://foo.com/bar/ gives exactly the invalid-scheme and
\* invalid-path messages and "/" exactly the missing-scheme and
\* missing-host messages.
C16_UpstreamRulesInOrder ==
    \A p \in ProxyIds :
        AfterValidate(p) /\ UpstreamSet(opts[p]) /\ ~opts[p].Upstream.URL.nil =>
            LET o == opts[p]
                u == o.Upstream.URL
                rules == SchemeRule(u) \o HostRule(u) \o PathRule(u)
                k == BeforeUpstream(o)
            IN  /\ validateUpstream(o, <<>>).msgs = rules
                /\ Len(msgs[p]) >= k + Len(rules)
                /\ SubSeq(msgs[p], k + 1, k + Len(rules)) = rules
                /\ RawString(o.Upstream.Raw) = "gopher://foo.com/bar/" =>
                       rules = <<"invalid upstream scheme: gopher",
                                 "upstream path must be \"/\", not /bar/">>
                /\ RawString(o.Upstream.Raw) = "/" =>
                       rules = <<"upstream scheme not specified",
                                 "upstream host not specified">>

\* Validate has returned for the upstream gopher://foo.com/bar/ and its
\* report is the two messages.
C16_Witness ==
    /\ pc["upstream"] = "validated"
    /\ RawString(opts["upstream"].Upstream.Raw) = "gopher://foo.com/bar/"
    /\ msgs["upstream"] = <<"invalid upstream scheme: gopher",
                           "upstream path must be \"/\", not /bar/">>

PairingMessage == "ssl-cert and ssl-key must both be specified, or neither must be"

\* The messages of the file check of one path, made on its own.
FileCheck(path, optionName, o) ==
    checkExistenceAndPermission(path, optionName, "file", o, <<>>).msgs

\* C17: the TLS check emits nothing when neither cert nor key is given;
\* when exactly one is given it emits the pairing message and then the file
\* check of that path, and no file check of the other; when both are given
\* it emits no pairing message and checks the cert and then the key, each
\* on its own, so two missing files give two messages, cert before key.
C17_TlsPairThenFileChecks ==
    \A p \in ProxyIds :
        AfterValidate(p) =>
            LET o == opts[p]
                r == validateSsl(o, <<>>)
                cert == FileCheck(o.SslCert, "ssl-cert", o)
                key == FileCheck(o.SslKey, "ssl-key", o)
            IN  /\ ~r.panicked
                /\ Len(ran[p]) = 5 => pc[p] # "panicked"
                /\ o.SslCert = "" /\ o.SslKey = "" => r.msgs = <<>>
                /\ o.SslCert # "" /\ o.SslKey = "" => r.msgs = <<PairingMessage>> \o cert
                /\ o.SslCert = "" /\ o.SslKey # "" => r.msgs = <<PairingMessage>> \o key
                /\ o.SslCert # "" /\ o.SslKey # "" => r.msgs = cert \o key
                /\ o.SslCert = "cert.pem" /\ o.SslKey = "key.pem" =>
                       r.msgs = <<"ssl-cert does not exist: cert.pem",
                                  "ssl-key does not exist: key.pem">>

\* What the file system says of a path.
PathMissing(path) == Stat(path).err \in {"ENOENT", "ENOTDIR"}
PathUnreadable(path) == Stat(path).err = "EACCES"
PathIsDirectory(path) == Stat(path).err = "nil" /\ Stat(path).IsDir

\* C18: the file-root check runs only when a file root is given, and then
\* a path that does not exist gives "does not exist", one that cannot be
\* read gives "permission is denied", one that is not a directory gives "is
\* not a directory", and an accessible directory gives no message.
C18_FileRootOwnMessages ==
    \A p \in ProxyIds :
        AfterValidate(p) =>
            LET o == opts[p]
                path == o.FileRoot
                r == validateFileRoot(o, <<>>)
            IN  /\ ~r.panicked
                /\ Len(ran[p]) = 4 => pc[p] # "panicked"
                /\ r.msgs =
                       IF path = "" THEN <<>>
                       ELSE IF PathMissing(path)
                       THEN <<"file-root does not exist: " \o path>>
                       ELSE IF PathUnreadable(path)
                       THEN <<"file-root permission is denied: " \o path>>
                       ELSE IF ~PathIsDirectory(path)
                       THEN <<"file-root is not a directory: " \o path>>
                       ELSE <<>>

(***************************************************************************)
(* Properties of NewHTTPProxyHandler (handlers.go), checked under Spec.    *)
(***************************************************************************)
\* C19: each Mode gives exactly one handler variant and one description:
\* "proxying signed requests to: <upstream>", "proxying authenticated
\* requests to: <upstream>", "serving files from <root> for authenticated
\* requests", "responding Accepted/Unauthorized for auth queries"; the
\* upstream is the raw string of the command line, not the parsed URL.
C19_OneHandlerAndDescriptionPerMode ==
    \A p \in ProxyIds :
        pc[p] = "serving" =>
            LET o == opts[p]
                h == handler[p]
                raw == RawString(o.Upstream.Raw)
            IN  /\ o.Mode \in {HandlerSignAndProxy, HandlerAuthAndProxy,
                               HandlerAuthForFiles, HandlerAuthOnly}
                /\ o.Mode = HandlerSignAndProxy =>
                       /\ h.kind = "signingHandler" /\ h.delegate = "ReverseProxy"
                       /\ h.target = o.Upstream.URL
                       /\ out[p] = "proxying signed requests to: " \o raw
                /\ o.Mode = HandlerAuthAndProxy =>
                       /\ h.kind = "authHandler" /\ h.delegate = "ReverseProxy"
                       /\ h.target = o.Upstream.URL
                       /\ out[p] = "proxying authenticated requests to: " \o raw
                /\ o.Mode = HandlerAuthForFiles =>
                       /\ h.kind = "authHandler" /\ h.delegate = "FileServer"
                       /\ h.root = o.FileRoot
                       /\ out[p] = "serving files from " \o o.FileRoot
                                   \o " for authenticated requests"
                /\ o.Mode = HandlerAuthOnly =>
                       /\ h.kind = "authOnlyHandler" /\ h.delegate = "none"
                       /\ out[p] = "responding Accepted/Unauthorized for auth queries"

\* A signing proxy is serving whose upstream was given as HTTP://localhost;
\* the description has the upstream as given, and the parsed URL differs.
C19_Witness ==
    /\ pc["upstream"] = "serving"
    /\ opts["upstream"].Mode = HandlerSignAndProxy
    /\ out["upstream"] = "proxying signed requests to: HTTP://localhost"
    /\ URLString(opts["upstream"].Upstream.URL) = "http://localhost"

(***************************************************************************)
(* Reentrancy of the handlers, checked under SpecServe: ServeHTTP of each  *)
(* handler as one sequential call, against the interleaved steps.          *)
(***************************************************************************)
\* What the delegate of h answers.
DelegateAlone(h) ==
    IF h.delegate = "FileServer" THEN [status |-> StatusOK, body |-> "file"]
    ELSE [status |-> StatusOK, body |-> "Success!"]

\* The response of handler h to request r, handled alone, and whether h
\* hands the request to its delegate.
ServeAlone(h, r) ==
    IF h.kind = "signingHandler"
    THEN [forwarded |-> TRUE, response |-> DelegateAlone(h)]
    ELSE IF ValidateRequest(h.auth, r) # ResultMatch
    THEN [forwarded |-> FALSE,
          response |-> [status |-> StatusUnauthorized, body |-> UnauthorizedBody]]
    ELSE IF h.kind = "authOnlyHandler"
    THEN [forwarded |-> FALSE, response |-> [status |-> StatusAccepted, body |-> ""]]
    ELSE [forwarded |-> TRUE, response |-> DelegateAlone(h)]

ReentrantInvariant ==
    \A i \in 1..Len(reqs) :
        LET e == reqs[i]
            h == handler[e.at]
        IN  /\ e.pc = "done" =>
                /\ [status |-> e.status, body |-> e.body] = ServeAlone(h, e.arrived).response
                /\ Delegated(e, e.at) <=> ServeAlone(h, e.arrived).forwarded
            /\ Has(e, "local", "ReverseProxy.ServeHTTP") =>
                   e.arrived.Header[CanonicalHeaderKey(handler["local"].auth.header)]
                       = requestSignature(handler["local"].auth, e.arrived,
                                          handler["local"].auth.hash)

ReentrantStep ==
    /\ reqs' # reqs => handler' = handler /\ opts' = opts
    /\ \A p \in ProxyIds : handler'[p] # handler[p] => handler[p] = NoHandler
    /\ Len(reqs') = Len(reqs) =>
           Cardinality({ i \in 1..Len(reqs) : reqs'[i] # reqs[i] }) <= 1
    /\ Len(reqs') # Len(reqs) => SubSeq(reqs', 1, Len(reqs)) = reqs

\* C20: the handlers are reentrant: under every interleaving of the
\* requests being handled, each request's response, and whether it is
\* forwarded, is what the request would get handled alone, and handling a
\* request changes neither the handler, the configuration, the
\* authenticator nor another request.
C20_HandlersReentrant == []ReentrantInvariant /\ [][ReentrantStep]_vars

\* The second of two requests to an authenticating proxy has been answered
\* 401 while the first, with a valid signature, is still being handled.
C20_Witness ==
    /\ Len(reqs) = 2
    /\ reqs[1].at = "upstream" /\ reqs[1].pc = "validated"
    /\ reqs[1].result = ResultMatch
    /\ reqs[2].at = "upstream" /\ reqs[2].pc = "done"
    /\ reqs[2].status = StatusUnauthorized

(***************************************************************************)
(* Further properties of the checks of Validate, checked under Spec.       *)
(***************************************************************************)
NeitherMessage == "neither -upstream, -file-root, nor -auth specified"
BothMessage == "both -upstream and -file-root specified"
AuthNeededMessage == "-auth must be specified with -file-root"

\* C21: the mode check emits at most two messages, one for each violated
\* rule: the "neither" and the "both" message never appear together, the
\* "-auth must be specified" message appears exactly when a file root is
\* set and auth is false; so an upstream and a file root without auth give
\* exactly the "both" message followed by the "-auth must be specified" one.
C21_ModeMessagesOnePerRule ==
    \A p \in ProxyIds :
        AfterValidate(p) =>
            LET o == opts[p]
                mm == ModeMessages(o)
            IN  /\ Len(mm) <= 2
                /\ Len(msgs[p]) >= Len(mm) /\ SubSeq(msgs[p], 1, Len(mm)) = mm
                /\ \A k \in 1..Len(mm) :
                       mm[k] \in {NeitherMessage, BothMessage, AuthNeededMessage}
                /\ ~(Count(msgs[p], NeitherMessage) > 0 /\ Count(msgs[p], BothMessage) > 0)
                /\ Count(msgs[p], NeitherMessage)
                       = IF ~UpstreamSet(o) /\ ~FileRootSet(o) /\ ~o.Auth THEN 1 ELSE 0
                /\ Count(msgs[p], BothMessage)
                       = IF UpstreamSet(o) /\ FileRootSet(o) THEN 1 ELSE 0
                /\ Count(msgs[p], AuthNeededMessage)
                       = IF FileRootSet(o) /\ ~o.Auth THEN 1 ELSE 0
                /\ UpstreamSet(o) /\ FileRootSet(o) /\ ~o.Auth =>
                       mm = <<BothMessage, AuthNeededMessage>>

\* Validate has returned for an upstream and the file root bogus without
\* auth; the report is the two messages of the mode check and the file
\* root's.
C21_Witness ==
    /\ pc["upstream"] = "validated"
    /\ ~opts["upstream"].Auth
    /\ RawString(opts["upstream"].Upstream.Raw) = "http://localhost"
    /\ msgs["upstream"] = <<BothMessage, AuthNeededMessage,
                           "file-root does not exist: bogus">>

\* An upstream the path rule lets through: no path at all or the path "/",
\* and no query string.
RootOnly(u) == u.Opaque = "" /\ u.Path \in {"", "/"} /\ u.RawQuery = ""

\* The path and query as the path message echoes them.
Echoed(u) ==
    (IF u.Opaque # "" THEN u.Opaque ELSE IF u.Path = "" THEN "/" ELSE u.Path)
    \o (IF u.RawQuery # "" THEN "?" \o u.RawQuery ELSE "")

PathMessage(u) == "upstream path must be \"/\", not " \o Echoed(u)

\* C22: an upstream with no path at all (http://localhost) passes the path
\* rule, because an empty path counts as "/"; every path other than "/",
\* and every upstream with a query string, gets the path message, once and
\* as the last message of the upstream check.
C22_EmptyPathIsRoot ==
    \A p \in ProxyIds :
        AfterValidate(p) /\ UpstreamSet(opts[p]) /\ ~opts[p].Upstream.URL.nil =>
            LET o == opts[p]
                u == o.Upstream.URL
                own == validateUpstream(o, <<>>).msgs
                k == BeforeUpstream(o)
                others == Len(SchemeRule(u)) + Len(HostRule(u))
            IN  /\ Len(msgs[p]) >= k + Len(own)
                /\ SubSeq(msgs[p], k + 1, k + Len(own)) = own
                /\ RootOnly(u) => Len(own) = others
                /\ ~RootOnly(u) =>
                       /\ Len(own) = others + 1
                       /\ own[Len(own)] = PathMessage(u)
                       /\ Count(msgs[p], PathMessage(u)) = 1
                /\ RawString(o.Upstream.Raw) = "http://localhost" =>
                       u.Path = "" /\ RootOnly(u) /\ own = <<>>
                /\ RawString(o.Upstream.Raw) = "http://localhost?q=1" =>
                       own = <<"upstream path must be \"/\", not /?q=1">>

\* Validate has returned without any message for the upstream
\* http://localhost, whose parsed path is empty.
C22_Witness ==
    /\ pc["upstream"] = "validated"
    /\ RawString(opts["upstream"].Upstream.Raw) = "http://localhost"
    /\ ~opts["upstream"].Upstream.URL.nil
    /\ opts["upstream"].Upstream.URL.Path = ""
    /\ err["upstream"].nil
    /\ msgs["upstream"] = <<>>

\* Validate has returned to its caller without an error.
ReturnedNoError(p) == pc[p] \in {"validated", "serving"} /\ err[p].nil

\* A parsed upstream a reverse proxy can be built on.
UsableTarget(u) == ~u.nil /\ u.Scheme \in {"http", "https"} /\ u.Host # ""

\* C23: whenever Validate returns no error, the field the handler of the
\* derived mode needs is there: in the two forwarding modes the upstream is
\* set and parsed to a URL with scheme http or https and a host, and there
\* is no file root; in the file mode the file root is not empty and there
\* is no upstream; so no handler is built with a reverse proxy to a nil
\* target or a file server on an empty root.
C23_ModeHasItsField ==
    \A p \in ProxyIds :
        ReturnedNoError(p) =>
            LET o == opts[p]
                h == IF pc[p] = "serving" THEN handler[p]
                     ELSE NewHTTPProxyHandler(o).handler
            IN  /\ o.Mode \in {HandlerSignAndProxy, HandlerAuthAndProxy} =>
                       /\ UpstreamSet(o)
                       /\ UsableTarget(o.Upstream.URL)
                       /\ ~FileRootSet(o)
                /\ o.Mode = HandlerAuthForFiles =>
                       FileRootSet(o) /\ ~UpstreamSet(o)
                /\ o.Mode = HandlerAuthOnly => ~FileRootSet(o) /\ ~UpstreamSet(o)
                /\ h.delegate = "ReverseProxy" =>
                       UsableTarget(h.target) /\ h.target = o.Upstream.URL
                /\ h.delegate = "FileServer" => h.root # "" /\ h.root = o.FileRoot
                /\ h.delegate = "ReverseProxy"
                       <=> o.Mode \in {HandlerSignAndProxy, HandlerAuthAndProxy}
                /\ h.delegate = "FileServer" <=> o.Mode = HandlerAuthForFiles

\* A proxy serves in AuthenticateAndForward mode with a reverse proxy to
\* the parsed upstream https://localhost:8080/.
C23_Witness ==
    /\ pc["upstream"] = "serving"
    /\ err["upstream"].nil
    /\ opts["upstream"].Mode = HandlerAuthAndProxy
    /\ handler["upstream"].delegate = "ReverseProxy"
    /\ handler["upstream"].target.Scheme = "https"
    /\ handler["upstream"].target.Host = "localhost:8080"
    /\ opts["upstream"].FileRoot = ""

\* The paths a configuration supplies, each with its option name and the
\* kind of file the check expects.
SuppliedPaths(o) ==
    { x \in { <<o.FileRoot, "file-root", "dir">>,
              <<o.SslCert, "ssl-cert", "file">>,
              <<o.SslKey, "ssl-key", "file">> } : x[1] # "" }

\* C24: for every outcome of the lookup of a supplied path (found, not
\* found, permission denied, any other error) the existence and permission
\* check returns its messages and does not crash, because it never reads
\* the file information when the lookup failed: once the upstream check
\* has got through, Validate returns.
C24_FileCheckNeverCrashes ==
    \A p \in ProxyIds :
        AfterValidate(p) /\ ~validateUpstream(opts[p], <<>>).panicked =>
            /\ pc[p] # "panicked"
            /\ ran[p] = AllChecks
            /\ \A x \in SuppliedPaths(opts[p]) :
                   LET r == checkExistenceAndPermission(x[1], x[2], x[3], opts[p], <<>>)
                   IN  ~r.panicked /\ Len(r.msgs) <= 1

\* The options with the three derived fields taken from d.
WithDerived(o, d) ==
    [o EXCEPT !.Mode = d.Mode, !.Digest.ID = d.Digest.ID, !.Upstream.URL = d.Upstream.URL]

\* A second call of Validate on the options a first call has left gives the
\* report, the error, the Mode and the options of the first.
ValidateAgainInvariant ==
    \A p \in ProxyIds :
        AfterValidate(p) =>
            \E again \in {ValidateResult(opts[p])} :
                /\ again.msgs = msgs[p]
                /\ again.err = err[p]
                /\ again.panicked <=> pc[p] = "panicked"
                /\ again.opts.Mode = opts[p].Mode
                /\ again.opts = opts[p]

\* A call of Validate changes nothing of the options but Mode, Digest.ID
\* and Upstream.URL, and no other step changes the options at all.
ValidateFrameStep ==
    \A p \in ProxyIds :
        /\ opts'[p] = WithDerived(opts[p], opts'[p])
        /\ opts'[p] # opts[p] => pc[p] = "parsed" /\ pc'[p] \in {"validated", "panicked"}
        /\ \A f \in {"Port", "Auth", "Secret", "SignHeader", "Headers", "FileRoot", "SslCert", "SslKey"} :
               opts'[p][f] = opts[p][f]
        /\ opts'[p].Digest.Name = opts[p].Digest.Name
        /\ opts'[p].Upstream.Raw = opts[p].Upstream.Raw

\* C25: Validate writes only the derived fields (Mode, the digest id, the
\* parsed upstream URL) and leaves every field the caller supplied as it
\* was (port, auth, digest name, secret, signature header, covered
\* headers, raw upstream, file root, TLS paths); so a second call on the
\* same configuration gives the same report and the same Mode.
C25_ValidateWritesDerivedFieldsOnly == []ValidateAgainInvariant /\ [][ValidateFrameStep]_vars

\* Validate has returned a report of one message for a configuration with
\* an upstream and a supported digest: it has set the Mode, the digest id
\* and the parsed URL, and a second call gives the same report.
C25_Witness ==
    /\ pc["upstream"] = "validated"
    /\ opts["upstream"].Auth
    /\ opts["upstream"].Mode = HandlerAuthAndProxy
    /\ opts["upstream"].Digest.Name = "md5"
    /\ opts["upstream"].Digest.ID # NoHash
    /\ RawString(opts["upstream"].Upstream.Raw) = "https://localhost:8080/"
    /\ ~opts["upstream"].Upstream.URL.nil
    /\ msgs["upstream"] = <<PortMessage>>
    /\ ValidateResult(opts["upstream"]).msgs = <<PortMessage>>

=============================================================================
